---- MODULE Spec2Model ----
(***************************************************************************)
(* A model of the QuintoAndar listing scraper: the record model            *)
(* (models.py), the HTML-to-record parser (data_parser.py) and the async   *)
(* fetcher (http_client.py).                                               *)
(*                                                                         *)
(* Text is modelled by TLA+ strings, character by character: substring     *)
(* tests, lower-casing, stripping and the regular expressions of the code  *)
(* are computed on the characters.  An Optional value is None (the empty   *)
(* tuple) or the one-element tuple <<v>>.                                  *)
(***************************************************************************)
EXTENDS Integers, Sequences, FiniteSets, TLC

VARIABLES
    info,           \* TextSpec: the PropertyInfo that update_from_text mutates
    calls,          \* TextSpec: the number of update_from_text calls made
    text,           \* TextSpec: the argument of the latest update_from_text call
    html,           \* ParseSpec: the markup process_single_url / parse_property is given
    url,            \* ParseSpec: the url argument
    property_info,  \* ParseSpec: the record parse_property builds
    ppc,            \* ParseSpec: parse_property's position
    ld_i,           \* ParseSpec: the JSON-LD block _extract_from_json_ld is at
    ran,            \* ParseSpec: the extraction steps entered so far, in order
    result,         \* ParseSpec: the dict to_dict made of the returned record
    attempt,        \* FetchSpec: fetch_html's loop variable
    fpc,            \* FetchSpec: fetch_html's position
    responses,      \* FetchSpec: the outcome of every client.get so far
    fetched,        \* FetchSpec: fetch_html's return value
    urls,           \* BatchSpec: fetch_all_properties' argument
    site,           \* BatchSpec: what the remote site may answer for each url
    task,           \* BatchSpec: each process_with_semaphore task's position
    sem_value,      \* BatchSpec: asyncio.Semaphore._value
    sem_waiters,    \* BatchSpec: asyncio.Semaphore._waiters (FIFO)
    results,        \* BatchSpec: the results list
    main,           \* BatchSpec: fetch_all_properties' position
    cpc,            \* CollectSpec: collect_all_urls' position
    driver,         \* CollectSpec: self.driver
    browser,        \* CollectSpec: the browser process
    all_urls,       \* CollectSpec: len(all_urls)
    no_progress_count,  \* CollectSpec: the local of that name
    final_urls      \* CollectSpec: the length of the list collect_all_urls returned

vars == <<info, calls, text, html, url, property_info, ppc, ld_i, ran, result, attempt, fpc,
          responses, fetched, urls, site, task, sem_value, sem_waiters, results, main,
          cpc, driver, browser, all_urls, no_progress_count, final_urls>>

textVars  == <<info, calls, text>>
parseVars == <<html, url, property_info, ppc, ld_i, ran, result>>
fetchVars == <<attempt, fpc, responses, fetched>>
batchVars == <<urls, site, task, sem_value, sem_waiters, results, main>>
collectVars == <<cpc, driver, browser, all_urls, no_progress_count, final_urls>>

-----------------------------------------------------------------------------
(* Optional values and Python truthiness *)

None == <<>>

Some(v) == <<v>>

\* `if x:` for an Optional[str] / Optional[int]-as-string: None and "" are falsy
TruthyStr(o) == o # None /\ o[1] # ""

-----------------------------------------------------------------------------
(* Strings *)

Char(s, i) == SubSeq(s, i, i)

\* `sub in s`
Contains(s, sub) ==
    \E i \in 1..(Len(s) - Len(sub) + 1) : SubSeq(s, i, i + Len(sub) - 1) = sub

UpperChars == "ABCDEFGHIJKLMNOPQRSTUVWXYZÂÁÃÍÔ"
LowerChars == "abcdefghijklmnopqrstuvwxyzâáãíô"

LowerOf ==
    [c \in {Char(UpperChars, i) : i \in 1..Len(UpperChars)} |->
        Char(LowerChars, CHOOSE i \in 1..Len(UpperChars) : Char(UpperChars, i) = c)]

LowerChar(c) == IF c \in DOMAIN LowerOf THEN LowerOf[c] ELSE c

RECURSIVE LowerFrom(_, _)
LowerFrom(s, i) ==
    IF i > Len(s) THEN "" ELSE LowerChar(Char(s, i)) \o LowerFrom(s, i + 1)

\* a lower() that returns its argument
lower_identity(s) == s

\* str.lower()
lower(s) == LowerFrom(s, 1)

NBSP == " "

IsSpace(c) == c \in {" ", "\t", "\n", NBSP}

IsDigit(c) == c \in {"0", "1", "2", "3", "4", "5", "6", "7", "8", "9"}

\* str.strip()
strip(s) ==
    LET keep == {i \in 1..Len(s) : ~IsSpace(Char(s, i))}
    IN  IF keep = {} THEN ""
        ELSE SubSeq(s, CHOOSE i \in keep : \A j \in keep : i <= j,
                       CHOOSE i \in keep : \A j \in keep : i >= j)

RECURSIVE ReplaceFrom(_, _, _, _)
ReplaceFrom(s, i, old, new) ==
    IF i > Len(s) THEN ""
    ELSE (IF Char(s, i) = old THEN new ELSE Char(s, i)) \o ReplaceFrom(s, i + 1, old, new)

\* str.replace(old, new) for a one-character old
replace(s, old, new) == ReplaceFrom(s, 1, old, new)

RECURSIVE CollapseFrom(_, _)
CollapseFrom(s, i) ==
    IF i > Len(s) THEN ""
    ELSE IF IsSpace(Char(s, i))
         THEN IF i > 1 /\ IsSpace(Char(s, i - 1)) THEN CollapseFrom(s, i + 1)
              ELSE " " \o CollapseFrom(s, i + 1)
         ELSE Char(s, i) \o CollapseFrom(s, i + 1)

\* re.sub(r'\s+', ' ', s)
collapse_spaces(s) == CollapseFrom(s, 1)

RECURSIVE JoinFrom(_, _, _)
JoinFrom(sep, parts, i) ==
    IF i > Len(parts) THEN ""
    ELSE IF i = Len(parts) THEN parts[i]
    ELSE parts[i] \o sep \o JoinFrom(sep, parts, i + 1)

\* sep.join(parts)
join(sep, parts) == JoinFrom(sep, parts, 1)

-----------------------------------------------------------------------------
(* The regular expressions (\d+)\s*<keyword> of models.py *)

RECURSIVE DigitsEnd(_, _)
\* the last index of the digit run that holds index i
DigitsEnd(s, i) ==
    IF i < Len(s) /\ IsDigit(Char(s, i + 1)) THEN DigitsEnd(s, i + 1) ELSE i

RECURSIVE SkipSpaces(_, _)
\* the first index >= i that holds no whitespace (Len(s) + 1 if none)
SkipSpaces(s, i) ==
    IF i <= Len(s) /\ IsSpace(Char(s, i)) THEN SkipSpaces(s, i + 1) ELSE i

MatchAt(s, p, kw) ==
    p + Len(kw) - 1 <= Len(s) /\ SubSeq(s, p, p + Len(kw) - 1) = kw

\* re.search(r"(\d+)\s*<kw>", s) for kw in kws: group(1) of the leftmost
\* match, or None.  \d+ and \s* are greedy and a keyword starts with neither
\* a digit nor a space, so a match from index i takes the whole digit run and
\* all the whitespace after it.
re_search_num(s, kws) ==
    LET starts == {i \in 1..Len(s) :
                      /\ IsDigit(Char(s, i))
                      /\ \E kw \in kws :
                            MatchAt(s, SkipSpaces(s, DigitsEnd(s, i) + 1), kw)}
    IN  IF starts = {} THEN None
        ELSE LET i == CHOOSE k \in starts : \A j \in starts : k <= j
             IN  Some(SubSeq(s, i, DigitsEnd(s, i)))

DigitVal(c) == CHOOSE d \in 0..9 : Char("0123456789", d + 1) = c

RECURSIVE IntUpTo(_, _)
IntUpTo(ds, n) ==
    IF n = 0 THEN 0 ELSE 10 * IntUpTo(ds, n - 1) + DigitVal(Char(ds, n))

\* int(ds) for a string of digits
int(ds) == IntUpTo(ds, Len(ds))

-----------------------------------------------------------------------------
(* models.py: PropertyInfo *)

\* PropertyInfo(url=url, status=status) with the dataclass defaults
PropertyInfo(u, st) ==
    [url |-> u, title |-> None, address_street |-> None, area |-> None,
     quartos |-> None, suite |-> 0, banheiros |-> None, vagas |-> None,
     andar |-> None, pet |-> "não", mobiliado |-> "sim",
     metro_proximo |-> "não", prices |-> <<>>, status |-> st]

RECURSIVE dict_update(_, _, _)
\* result.update(self.prices), from the i-th price on
dict_update(d, other, i) ==
    IF i > Len(other) THEN d
    ELSE LET key == other[i][1]
             value == other[i][2]
             set == IF \E k \in 1..Len(d) : d[k][1] = key
                    THEN [k \in 1..Len(d) |-> IF d[k][1] = key THEN <<key, value>> ELSE d[k]]
                    ELSE Append(d, <<key, value>>)
         IN  dict_update(set, other, i + 1)

\* PropertyInfo.to_dict: the dict as its items in insertion order
to_dict(self) ==
    dict_update(<<<<"url", self.url>>, <<"status", self.status>>, <<"title", self.title>>,
                  <<"address_street", self.address_street>>, <<"area", self.area>>,
                  <<"quartos", self.quartos>>, <<"suite", self.suite>>,
                  <<"banheiros", self.banheiros>>, <<"vagas", self.vagas>>,
                  <<"andar", self.andar>>, <<"pet", self.pet>>,
                  <<"mobiliado", self.mobiliado>>,
                  <<"metro_proximo", self.metro_proximo>>>>,
                self.prices, 1)

\* PropertyInfo.clean_area
clean_area(t) ==
    IF t = "" THEN None
    ELSE re_search_num(replace(t, NBSP, " "), {"m²"})

\* a rooms rule that takes any number of rooms
update_rooms_unchecked(self, t, text_lower) ==
    LET room_match == re_search_num(text_lower, {"quarto"})
        s1 == IF room_match # None
              THEN [self EXCEPT !.quartos = Some(int(room_match[1]))]
              ELSE self
    IN  IF Contains(text_lower, "suíte") \/ Contains(text_lower, "suite")
        THEN LET s_match == re_search_num(lower(t), {"suite", "suíte"})
             IN  IF s_match # None
                 THEN IF int(s_match[1]) >= 1 /\ int(s_match[1]) <= 5
                      THEN [s1 EXCEPT !.suite = int(s_match[1])]
                      ELSE s1
                 ELSE [s1 EXCEPT !.suite = 1]
        ELSE s1

\* a rooms rule that leaves suite alone when no number stands before the word
update_rooms_no_suite_default(self, t, text_lower) ==
    LET room_match == re_search_num(text_lower, {"quarto"})
        s1 == IF room_match # None /\ int(room_match[1]) >= 1 /\ int(room_match[1]) <= 10
              THEN [self EXCEPT !.quartos = Some(int(room_match[1]))]
              ELSE self
    IN  IF Contains(text_lower, "suíte") \/ Contains(text_lower, "suite")
        THEN LET s_match == re_search_num(lower(t), {"suite", "suíte"})
             IN  IF s_match # None /\ int(s_match[1]) >= 1 /\ int(s_match[1]) <= 5
                 THEN [s1 EXCEPT !.suite = int(s_match[1])]
                 ELSE s1
        ELSE s1

update_rooms(self, t, text_lower) ==
    LET room_match == re_search_num(text_lower, {"quarto"})
        s1 == IF room_match # None /\ int(room_match[1]) >= 1 /\ int(room_match[1]) <= 10
              THEN [self EXCEPT !.quartos = Some(int(room_match[1]))]
              ELSE self
    IN  IF Contains(text_lower, "suíte") \/ Contains(text_lower, "suite")
        THEN \* re.search(r"(\d+)\s*su[ií]te", text, flags=re.IGNORECASE)
             LET s_match == re_search_num(lower(t), {"suite", "suíte"})
             IN  IF s_match # None
                 THEN IF int(s_match[1]) >= 1 /\ int(s_match[1]) <= 5
                      THEN [s1 EXCEPT !.suite = int(s_match[1])]
                      ELSE s1
                 ELSE [s1 EXCEPT !.suite = 1]
        ELSE s1

update_bathrooms(self, text_lower) ==
    LET bath_match == re_search_num(text_lower, {"banheiro"})
    IN  IF bath_match # None /\ int(bath_match[1]) >= 1 /\ int(bath_match[1]) <= 10
        THEN [self EXCEPT !.banheiros = Some(int(bath_match[1]))]
        ELSE self

update_parking(self, text_lower) ==
    LET vaga_match == re_search_num(text_lower, {"vaga"})
    IN  IF vaga_match # None
        THEN IF int(vaga_match[1]) >= 0 /\ int(vaga_match[1]) <= 10
             THEN [self EXCEPT !.vagas = Some(int(vaga_match[1]))]
             ELSE IF int(vaga_match[1]) # int(vaga_match[1])
                  THEN [self EXCEPT !.vagas = Some(0)]
                  ELSE self
        ELSE IF Contains(text_lower, "sem vaga")
             THEN [self EXCEPT !.vagas = Some(0)]
             ELSE self

\* a guard that lets every area fragment write
area_guard_dropped(self) == TRUE

\* `not self.area`
area_is_empty(self) == ~TruthyStr(self.area)

\* PropertyInfo.update_from_text: the record after the call
update_from_text(self, t) ==
    IF t = "" THEN self
    ELSE LET text_lower == lower(t) IN
         IF (Contains(t, "m²") \/ Contains(text_lower, "mâ²")) /\ area_is_empty(self)
         THEN IF ~Contains(text_lower, "quarto")
              THEN [self EXCEPT !.area = clean_area(t)]
              ELSE self
         ELSE IF Contains(text_lower, "quarto") THEN update_rooms(self, t, text_lower)
         ELSE IF Contains(text_lower, "banheiro") THEN update_bathrooms(self, text_lower)
         ELSE IF Contains(text_lower, "vaga") THEN update_parking(self, text_lower)
         ELSE IF Contains(text_lower, "andar") /\ self.andar = None
              THEN [self EXCEPT !.andar = Some(t)]
         ELSE IF Contains(text_lower, "aceita pet") THEN [self EXCEPT !.pet = "sim"]
         ELSE IF Contains(text_lower, "sem mobília") \/ Contains(text_lower, "sem mobiliá")
              THEN [self EXCEPT !.mobiliado = "não"]
         ELSE IF Contains(text_lower, "metrô") THEN [self EXCEPT !.metro_proximo = "sim"]
         ELSE self

-----------------------------------------------------------------------------
(* JSON values, as json.loads returns them: [t |-> type, v |-> payload].   *)
(* A list's payload is the sequence of its items, a dict's the sequence of *)
(* its <<key, value>> pairs.  JInvalid is text json.loads rejects.         *)

JNull == [t |-> "null", v |-> 0]
JStr(x) == [t |-> "str", v |-> x]
JNum(n) == [t |-> "num", v |-> n]
JList(items) == [t |-> "list", v |-> items]
JDict(pairs) == [t |-> "dict", v |-> pairs]
JInvalid == [t |-> "invalid", v |-> 0]

\* bool(j)
Truthy(j) ==
    CASE j.t = "null" -> FALSE
      [] j.t = "str"  -> j.v # ""
      [] j.t = "num"  -> j.v # 0
      [] OTHER        -> Len(j.v) > 0

\* d.get(key, default): the last pair with that key wins in json.loads
dict_get(d, key, default) ==
    LET at == {i \in 1..Len(d.v) : d.v[i][1] = key}
    IN  IF at = {} THEN default
        ELSE d.v[CHOOSE i \in at : \A j \in at : i >= j][2]

RECURSIVE nat_str(_)
\* str(n) for an int n >= 0
nat_str(n) ==
    IF n < 10 THEN Char("0123456789", n + 1)
    ELSE nat_str(n \div 10) \o Char("0123456789", (n % 10) + 1)

RECURSIVE py_repr(_)
RECURSIVE py_repr_items(_, _)
\* repr(j), as str() shows the members of a list or dict
py_repr(j) ==
    CASE j.t = "null" -> "None"
      [] j.t = "str"  -> "'" \o j.v \o "'"
      [] j.t = "num"  -> nat_str(j.v)
      [] j.t = "list" -> "[" \o py_repr_items(j, 1) \o "]"
      [] OTHER        -> "{" \o py_repr_items(j, 1) \o "}"

py_repr_items(j, i) ==
    IF i > Len(j.v) THEN ""
    ELSE (IF j.t = "list" THEN py_repr(j.v[i])
          ELSE "'" \o j.v[i][1] \o "': " \o py_repr(j.v[i][2]))
         \o (IF i < Len(j.v) THEN ", " ELSE "")
         \o py_repr_items(j, i + 1)

\* str(j)
py_str(j) == IF j.t = "str" THEN j.v ELSE py_repr(j)

RECURSIVE truthy_from(_, _)
\* [part for part in xs if part]
truthy_from(xs, i) ==
    IF i > Len(xs) THEN <<>>
    ELSE (IF Truthy(xs[i]) THEN <<xs[i]>> ELSE <<>>) \o truthy_from(xs, i + 1)

-----------------------------------------------------------------------------
(* data_parser.py: the structured-data extractor *)

\* dict.__setitem__ on the insertion-ordered prices dict: <<label, value>> pairs
dict_set(d, key, value) ==
    IF \E i \in 1..Len(d) : d[i][1] = key
    THEN [i \in 1..Len(d) |-> IF d[i][1] = key THEN <<key, value>> ELSE d[i]]
    ELSE Append(d, <<key, value>>)

PropertyKeywords == {"place", "residence", "apartment", "house", "realestate"}

\* PropertyParser._is_property_data
is_property_data(item) ==
    /\ item.t = "dict"
    /\ \E keyword \in PropertyKeywords :
          Contains(lower(py_str(dict_get(item, "@type", JStr("")))), keyword)

\* the address part of _parse_json_ld_data: ", ".join raises TypeError on a
\* truthy part that is no str
parse_json_ld_address(data, rec) ==
    LET address == dict_get(data, "address", JNull)
        address_parts ==
            IF address.t # "dict" THEN <<>>
            ELSE truthy_from(<<dict_get(address, "streetAddress", JNull),
                               dict_get(address, "addressLocality", JNull),
                               dict_get(address, "addressRegion", JNull)>>, 1)
    IN  IF Len(address_parts) = 0 THEN [info |-> rec, raised |-> FALSE]
        ELSE IF \E i \in 1..Len(address_parts) : address_parts[i].t # "str"
             THEN [info |-> rec, raised |-> TRUE]
             ELSE [info |-> [rec EXCEPT !.address_street =
                        Some(join(", ", [i \in 1..Len(address_parts) |-> address_parts[i].v]))],
                   raised |-> FALSE]

\* the offers part of _parse_json_ld_data
parse_json_ld_offers(data, rec) ==
    LET offers == dict_get(data, "offers", JNull)
        offer  == IF offers.t = "list" /\ Len(offers.v) > 0 THEN offers.v[1]
                  ELSE IF offers.t = "dict" THEN offers
                  ELSE JDict(<<>>)
    IN  IF Truthy(offers) /\ offer.t = "dict" /\ Truthy(dict_get(offer, "price", JNull))
        THEN [rec EXCEPT !.prices =
                 dict_set(@, "Preço (LD)",
                          strip(py_str(dict_get(offer, "priceCurrency", JStr("")))
                                \o " " \o py_str(dict_get(offer, "price", JNull))))]
        ELSE rec

\* PropertyParser._parse_json_ld_data: [info |-> the record, raised |-> whether
\* an exception left the call]
parse_json_ld_data(data, rec) ==
    LET a == parse_json_ld_address(data, rec)
    IN  IF a.raised THEN a
        ELSE [info |-> parse_json_ld_offers(data, a.info), raised |-> FALSE]

\* the object one block hands to _parse_json_ld_data (data_parser.py:54-60)
select_ld_object(data) ==
    IF data.t # "list" THEN data
    ELSE LET hits == {i \in 1..Len(data.v) : is_property_data(data.v[i])}
         IN  IF hits # {} THEN data.v[CHOOSE i \in hits : \A j \in hits : i <= j]
             ELSE IF Len(data.v) > 0 THEN data.v[1]
             ELSE JDict(<<>>)

\* one iteration of _extract_from_json_ld's loop: JSONDecodeError is caught
\* and the block skipped; any other exception leaves the loop
extract_ld_block(block, rec) ==
    IF block.t = "invalid" THEN [info |-> rec, raised |-> FALSE]
    ELSE LET data == select_ld_object(block)
         IN  IF data.t = "dict" THEN parse_json_ld_data(data, rec)
             ELSE [info |-> rec, raised |-> FALSE]

RECURSIVE extract_ld_from(_, _, _)
extract_ld_from(blocks, i, rec) ==
    IF i > Len(blocks) THEN [info |-> rec, raised |-> FALSE]
    ELSE LET r == extract_ld_block(blocks[i], rec)
         IN  IF r.raised THEN r ELSE extract_ld_from(blocks, i + 1, r.info)

\* PropertyParser._extract_from_json_ld
extract_from_json_ld(soup, rec) == extract_ld_from(soup.ld, 1, rec)

-----------------------------------------------------------------------------
(* data_parser.py: the DOM heuristics.  The soup is what the selectors of  *)
(* config.SELECTORS find in the page:                                      *)
(*   ld         the JSON-LD script blocks, parsed                          *)
(*   title      the first title element's text, or None                    *)
(*   container  the address container's children [p |-> it is a <p>,       *)
(*              text |-> its text], or None when there is no container     *)
(*   generic    for each of the five generic address selectors the first   *)
(*              matching element's text, or None                           *)
(*   breadcrumbs  the breadcrumb/nav link texts                            *)
(*   main_info  the text nodes of each main-info block                     *)
(*   price_table  per row the label elements' and value elements' texts    *)

\* PropertyParser._extract_title
extract_title(soup, rec) ==
    IF soup.title # None THEN [rec EXCEPT !.title = Some(strip(soup.title[1]))]
    ELSE rec

RECURSIVE dedup_from(_, _, _)
\* the address_parts loop of strategy 1
dedup_from(ps, i, acc) ==
    IF i > Len(ps) THEN acc
    ELSE LET t == strip(ps[i].text)
         IN  dedup_from(ps, i + 1,
                 IF t # "" /\ ~(\E k \in 1..Len(acc) : acc[k] = t)
                 THEN Append(acc, t) ELSE acc)

\* Strategy 1: the address container's paragraphs, de-duplicated and joined
address_from_paragraphs(soup) ==
    IF soup.container = None THEN None
    ELSE LET address_paragraphs == SelectSeq(soup.container[1], LAMBDA c : c.p)
             address_parts == dedup_from(address_paragraphs, 1, <<>>)
         IN  IF Len(address_parts) > 0 THEN Some(join(", ", address_parts)) ELSE None

RECURSIVE get_text_from(_, _)
\* element.get_text(strip=True): the stripped text nodes, concatenated
get_text_from(nodes, i) ==
    IF i > Len(nodes) THEN "" ELSE strip(nodes[i].text) \o get_text_from(nodes, i + 1)

\* Strategy 2: the address container's whole text
address_from_container(soup) ==
    IF soup.container = None THEN None
    ELSE LET address_text == collapse_spaces(get_text_from(soup.container[1], 1))
         IN  IF address_text # "" THEN Some(address_text) ELSE None

MinAddressLen == 10

\* Strategy 3: the five generic selectors, in order
address_from_generic(soup) ==
    LET ok == {i \in 1..Len(soup.generic) :
                  /\ soup.generic[i] # None
                  /\ strip(soup.generic[i][1]) # ""
                  /\ Len(strip(soup.generic[i][1])) > MinAddressLen}
    IN  IF ok = {} THEN None
        ELSE Some(strip(soup.generic[CHOOSE i \in ok : \A j \in ok : i <= j][1]))

GeoKeywords == {"sp", "paulo", "são", "rua", "av"}

\* Strategy 4: the last two breadcrumb links
address_from_breadcrumbs(soup) ==
    LET n == Len(soup.breadcrumbs)
        ok == {i \in 1..n :
                  /\ i > n - 2
                  /\ \E keyword \in GeoKeywords :
                        Contains(lower(strip(soup.breadcrumbs[i])), keyword)}
    IN  IF ok = {} THEN None
        ELSE Some(strip(soup.breadcrumbs[CHOOSE i \in ok : \A j \in ok : i <= j]))

\* a waterfall that tries the container's whole text before its paragraphs
address_waterfall_container_first(soup, rec) ==
    IF address_from_container(soup) # None
         THEN [rec EXCEPT !.address_street = address_from_container(soup)]
    ELSE IF address_from_paragraphs(soup) # None
         THEN [rec EXCEPT !.address_street = address_from_paragraphs(soup)]
    ELSE IF address_from_generic(soup) # None
         THEN [rec EXCEPT !.address_street = address_from_generic(soup)]
    ELSE IF address_from_breadcrumbs(soup) # None
         THEN [rec EXCEPT !.address_street = address_from_breadcrumbs(soup)]
    ELSE rec

\* the four strategies of _extract_address, in order
address_waterfall(soup, rec) ==
    IF address_from_paragraphs(soup) # None
         THEN [rec EXCEPT !.address_street = address_from_paragraphs(soup)]
    ELSE IF address_from_container(soup) # None
         THEN [rec EXCEPT !.address_street = address_from_container(soup)]
    ELSE IF address_from_generic(soup) # None
         THEN [rec EXCEPT !.address_street = address_from_generic(soup)]
    ELSE IF address_from_breadcrumbs(soup) # None
         THEN [rec EXCEPT !.address_street = address_from_breadcrumbs(soup)]
    ELSE rec

\* an address step that does not look at what JSON-LD found
extract_address_unguarded(soup, rec) == address_waterfall(soup, rec)

\* PropertyParser._extract_address
extract_address(soup, rec) ==
    IF TruthyStr(rec.address_street) THEN rec ELSE address_waterfall(soup, rec)

RECURSIVE stripped_strings(_, _)
\* [t.strip() for t in block.stripped_strings]
stripped_strings(nodes, i) ==
    IF i > Len(nodes) THEN <<>>
    ELSE (IF strip(nodes[i]) # "" THEN <<strip(nodes[i])>> ELSE <<>>)
         \o stripped_strings(nodes, i + 1)

RECURSIVE details_from(_, _, _)
\* the loop over the main-info blocks
details_from(blocks, i, rec) ==
    IF i > Len(blocks) THEN rec
    ELSE LET text_parts == stripped_strings(blocks[i], 1)
         IN  details_from(blocks, i + 1,
                 IF Len(text_parts) = 0 THEN rec
                 ELSE update_from_text(rec, join(" ", text_parts)))

\* PropertyParser._extract_property_details
extract_property_details(soup, rec) ==
    LET r == details_from(soup.main_info, 1, rec)
    IN  IF TruthyStr(r.title) THEN update_from_text(r, r.title[1]) ELSE r

\* a row handler that takes the first value candidate
extract_price_row_first_value(item, rec) ==
    IF Len(item.labels) = 0 THEN rec
    ELSE IF strip(item.labels[1]) = "" THEN rec
    ELSE IF Len(item.values) = 0 THEN rec
    ELSE IF strip(item.values[1]) # ""
         THEN [rec EXCEPT !.prices = dict_set(@, strip(item.labels[1]), strip(item.values[1]))]
         ELSE rec

\* one row of the price table
extract_price_row(item, rec) ==
    IF Len(item.labels) = 0 THEN rec
    ELSE IF strip(item.labels[1]) = "" THEN rec
    ELSE IF Len(item.values) = 0 THEN rec
    ELSE IF strip(item.values[Len(item.values)]) # ""
         THEN [rec EXCEPT !.prices =
                  dict_set(@, strip(item.labels[1]), strip(item.values[Len(item.values)]))]
         ELSE rec

RECURSIVE prices_from(_, _, _)
prices_from(rows, i, rec) ==
    IF i > Len(rows) THEN rec
    ELSE prices_from(rows, i + 1, extract_price_row(rows[i], rec))

\* PropertyParser._extract_prices
extract_prices(soup, rec) == prices_from(soup.price_table, 1, rec)

-----------------------------------------------------------------------------
(* The pages parse_property is given.  A page is described by the index of *)
(* each part of its soup in the lists below; kind tells None and "" from   *)
(* markup.                                                                 *)

LdAddress(street, locality) ==
    JDict(<<<<"streetAddress", street>>, <<"addressLocality", locality>>,
            <<"addressRegion", JNull>>>>)

LdChoices == <<
    \* 1: no structured data
    <<>>,
    \* 2: one well-formed block with an address and an offer
    <<JDict(<<<<"@type", JStr("Apartment")>>,
              <<"address", LdAddress(JStr("Rua A, 10"), JStr("São Paulo"))>>,
              <<"offers", JDict(<<<<"price", JNum(2500)>>,
                                  <<"priceCurrency", JStr("BRL")>>>>)>>>>)>>,
    \* 3: an unparsable block, then a well-formed one
    <<JInvalid,
      JDict(<<<<"address", LdAddress(JStr("Rua A, 10"), JNull)>>>>)>>,
    \* 4: a block whose streetAddress is a number
    <<JDict(<<<<"address", LdAddress(JNum(12), JStr("São Paulo"))>>,
              <<"offers", JDict(<<<<"price", JNum(900)>>>>)>>>>)>>,
    \* 5: a well-formed block, then one whose addressLocality is a list
    <<JDict(<<<<"address", LdAddress(JStr("Rua A, 10"), JNull)>>,
              <<"offers", JList(<<JDict(<<<<"price", JStr("1.800")>>>>)>>)>>>>),
      JDict(<<<<"address", LdAddress(JStr("Rua Z"), JList(<<JStr("SP")>>))>>>>)>>,
    \* 6: a list of objects, the second one typed as a residence
    <<JList(<<JDict(<<<<"@type", JStr("Organization")>>,
                      <<"address", LdAddress(JStr("Av. Sede, 1"), JNull)>>>>),
              JDict(<<<<"@type", JList(<<JStr("Product"), JStr("SingleFamilyResidence")>>)>>,
                      <<"address", LdAddress(JStr("Rua A, 10"), JStr("São Paulo"))>>>>)>>)>>,
    \* 7: address and offers of unexpected but harmless types
    <<JDict(<<<<"address", JStr("Rua X, 5")>>, <<"offers", JStr("sob consulta")>>>>),
      JDict(<<<<"address", JList(<<>>)>>, <<"offers", JList(<<JNum(3)>>)>>>>)>>,
    \* 8: blocks that are no object at all
    <<JNum(3), JList(<<>>), JNull, JList(<<JStr("x")>>)>>
>>

TitleChoices == <<
    None,
    Some("  Apartamento para alugar "),
    Some("Apartamento com 3 quartos e 2 vagas")
>>

ContainerChoices == <<
    None,
    Some(<<[p |-> TRUE, text |-> "Rua B, 20"], [p |-> TRUE, text |-> " Tatuapé "],
           [p |-> TRUE, text |-> "Tatuapé"]>>),
    Some(<<[p |-> FALSE, text |-> " Rua  C,\n 30 "], [p |-> TRUE, text |-> "  "]>>),
    Some(<<[p |-> TRUE, text |-> " "], [p |-> FALSE, text |-> "\n"]>>)
>>

GenericChoices == <<
    <<None, None, None, None, None>>,
    <<None, Some(" Tatuapé, São Paulo - SP "), None, Some("Rua longa demais, 1"), None>>,
    <<Some(""), Some("Centro"), Some("Zona Leste, São Paulo"), None, None>>
>>

BreadcrumbChoices == <<
    <<>>,
    <<"Home", " São Paulo ">>,
    <<"Rua D", "Alugar", "Imóveis">>,
    <<"Início", "Avenida E", "SP">>
>>

MainInfoChoices == <<
    <<>>,
    <<<<"65 m²">>, <<" 2 ", "quartos">>, <<"  ">>, <<"1 banheiro">>, <<"Aceita pet">>>>,
    <<<<"2 quartos (1 suíte)">>, <<"4 quartos">>, <<"sem vaga">>, <<"3º andar">>>>
>>

PriceTableChoices == <<
    <<>>,
    <<[labels |-> <<"Aluguel">>, values |-> <<"R$ 0", " R$ 2.500 ">>],
      [labels |-> <<>>, values |-> <<"R$ 1">>],
      [labels |-> <<" ", "IPTU">>, values |-> <<"R$ 2">>],
      [labels |-> <<"Condomínio">>, values |-> <<>>]>>,
    <<[labels |-> <<"Aluguel">>, values |-> <<"R$ 3.000">>],
      [labels |-> <<"Total", "x">>, values |-> <<"R$ 3.500">>],
      [labels |-> <<"Aluguel">>, values |-> <<"R$ 3.100">>]>>,
    <<[labels |-> <<"Aluguel">>, values |-> <<"R$ 2.000">>],
      [labels |-> <<" Aluguel ">>, values |-> <<"R$ 2.100", "  ">>]>>,
    <<[labels |-> <<"Aluguel">>, values |-> <<"R$ 1.800">>],
      [labels |-> <<"status">>, values |-> <<"Alugado">>]>>
>>

NoneHtml ==
    [kind |-> "None", ld |-> 1, title |-> 1, container |-> 1, generic |-> 1,
     breadcrumbs |-> 1, main_info |-> 1, price_table |-> 1]

EmptyHtml == [NoneHtml EXCEPT !.kind = "empty"]

\* the pages: every structured-data, title and detail part with either
\* address container, and every address and price part with or without the
\* well-formed structured data
Markups ==
    [kind : {"markup"}, ld : 1..Len(LdChoices), title : 1..Len(TitleChoices),
     container : {1, 2}, generic : {1}, breadcrumbs : {1},
     main_info : 1..Len(MainInfoChoices), price_table : {2}]
    \cup
    [kind : {"markup"}, ld : {1, 2}, title : {1},
     container : 1..Len(ContainerChoices), generic : 1..Len(GenericChoices),
     breadcrumbs : 1..Len(BreadcrumbChoices), main_info : {1},
     price_table : 1..Len(PriceTableChoices)]

\* `if html is not None:`
html_is_not_none(h) == h.kind # "None"

\* `if html:` / `if not html:`
TruthyHtml(h) == h.kind = "markup"

\* BeautifulSoup(html, "lxml"), seen through the selectors
BeautifulSoup(h) ==
    [ld |-> LdChoices[h.ld], title |-> TitleChoices[h.title],
     container |-> ContainerChoices[h.container], generic |-> GenericChoices[h.generic],
     breadcrumbs |-> BreadcrumbChoices[h.breadcrumbs],
     main_info |-> MainInfoChoices[h.main_info],
     price_table |-> PriceTableChoices[h.price_table]]

\* an except clause that logs and forgets the status
on_parse_exception_status_kept(rec) == rec

\* an except clause that starts the record afresh
on_parse_exception_rollback(rec) == PropertyInfo(rec.url, "parse_error")

\* the except clause of parse_property: the record is kept, its status set
on_parse_exception(rec) == [rec EXCEPT !.status = "parse_error"]

\* PropertyParser.parse_property, as one call
parse_property(h, u) ==
    IF ~TruthyHtml(h) THEN PropertyInfo(u, "no_content")
    ELSE LET soup == BeautifulSoup(h)
             r1   == extract_from_json_ld(soup, PropertyInfo(u, "pending"))
         IN  IF r1.raised THEN on_parse_exception(r1.info)
             ELSE [extract_prices(soup,
                       extract_property_details(soup,
                           extract_address(soup, extract_title(soup, r1.info))))
                   EXCEPT !.status = "success"]

-----------------------------------------------------------------------------
(* Values the variables of a specification hold while another one runs *)

Urls == {"https://q/imovel/1", "https://q/imovel/2"}

\* the record variable before any PropertyInfo is constructed
NoRecord == PropertyInfo("", "(no record)")

TextIdle  == info = NoRecord /\ calls = 0 /\ text = ""
ParseIdle == /\ html = NoneHtml /\ url = "" /\ property_info = NoRecord
             /\ ppc = "idle" /\ ld_i = 0 /\ ran = <<>> /\ result = <<>>
FetchIdle == attempt = 0 /\ fpc = "idle" /\ responses = <<>> /\ fetched = NoneHtml
BatchIdle == /\ urls = <<>> /\ site = <<>> /\ task = <<>> /\ sem_value = 0
             /\ sem_waiters = <<>> /\ results = <<>> /\ main = "idle"
CollectIdle == /\ cpc = "idle" /\ driver = "None" /\ browser = "none" /\ all_urls = 0
               /\ no_progress_count = 0 /\ final_urls = None

-----------------------------------------------------------------------------
(* TextSpec: any sequence of update_from_text calls on one fresh record *)

\* how many update_from_text calls one record receives
MaxCalls == 3

Fragments ==
    {"", "50 m²", "72m²", "80 m²", "área em m²", "65 m² 2 quartos",
     "2 quartos", "3 Quartos", "11 quartos", "2 quartos (1 suíte)",
     "1 banheiro", "2 banheiros", "1 vaga", "2 vagas", "sem vaga",
     "3º andar", "Andar alto", "Aceita pet", "Sem mobília", "Metrô próximo",
     "Portaria 24h",
     "80 mÂ²", "50 m² 1 vaga", "0 quartos", "12 banheiros", "11 vagas",
     "0 vagas", "vaga livre", "sem vaga (2 vagas)",
     "3 quartos 2 suítes", "2 quartos com Suíte", "4 quartos 6 suítes"}

TextInit ==
    /\ info = PropertyInfo("https://q/imovel/1", "pending")
    /\ calls = 0
    /\ text = ""
    /\ ParseIdle /\ FetchIdle /\ BatchIdle /\ CollectIdle

\* property_info.update_from_text(t)
UpdateFromText ==
    \E t \in Fragments :
        /\ calls < MaxCalls
        /\ calls' = calls + 1
        /\ info' = update_from_text(info, t)
        /\ text' = t
        /\ UNCHANGED <<parseVars, fetchVars, batchVars, collectVars>>

TextNext == UpdateFromText

TextSpec == TextInit /\ [][TextNext]_vars

-----------------------------------------------------------------------------
(* ParseSpec: one process_single_url call after fetch_html has returned    *)
(* html, or one direct parse_property call, step by step                   *)

HtmlInputs == {NoneHtml, EmptyHtml} \cup Markups

ParseInit ==
    /\ html \in HtmlInputs
    /\ url \in Urls
    /\ property_info = NoRecord
    /\ ppc \in {"process_single_url", "parse_property"}
    /\ ld_i = 0
    /\ ran = <<>>
    /\ result = <<>>
    /\ TextIdle /\ FetchIdle /\ BatchIdle /\ CollectIdle

\* a process_single_url that hands whatever fetch_html returned to the parser
ProcessSingleUrlUnchecked ==
    /\ ppc = "process_single_url"
    /\ ppc' = "parse_property"
    /\ UNCHANGED <<property_info, html, url, ld_i, ran, result, textVars, fetchVars, batchVars, collectVars>>

\* process_single_url after `html = await self.fetch_html(client, url)`
ProcessSingleUrl ==
    /\ ppc = "process_single_url"
    /\ IF TruthyHtml(html)
       THEN ppc' = "parse_property" /\ UNCHANGED property_info
       ELSE /\ property_info' = PropertyInfo(url, "fetch_failed")
            /\ ppc' = "returned"
    /\ UNCHANGED <<html, url, ld_i, ran, result, textVars, fetchVars, batchVars, collectVars>>

\* parse_property up to the try block
ParsePropertyCall ==
    /\ ppc = "parse_property"
    /\ IF ~TruthyHtml(html)
       THEN /\ property_info' = PropertyInfo(url, "no_content")
            /\ ppc' = "returned"
            /\ UNCHANGED ld_i
       ELSE /\ property_info' = PropertyInfo(url, "pending")
            /\ ppc' = "json_ld"
            /\ ld_i' = 1
    /\ UNCHANGED <<html, url, ran, result, textVars, fetchVars, batchVars, collectVars>>

\* self._extract_from_json_ld(soup, property_info), one script block per
\* step, and the except clause of parse_property when a block raises
StepJsonLd ==
    /\ ppc = "json_ld"
    /\ LET blocks == BeautifulSoup(html).ld
       IN  IF ld_i > Len(blocks)
           THEN ppc' = "title" /\ UNCHANGED <<property_info, ld_i>>
           ELSE LET r == extract_ld_block(blocks[ld_i], property_info)
                IN  IF r.raised
                    THEN /\ property_info' = on_parse_exception(r.info)
                         /\ ppc' = "returned"
                         /\ UNCHANGED ld_i
                    ELSE /\ property_info' = r.info
                         /\ ld_i' = ld_i + 1
                         /\ UNCHANGED ppc
    /\ ran' = IF ld_i = 1 THEN Append(ran, "json_ld") ELSE ran
    /\ UNCHANGED <<html, url, result, textVars, fetchVars, batchVars, collectVars>>

StepTitle ==
    /\ ppc = "title"
    /\ property_info' = extract_title(BeautifulSoup(html), property_info)
    /\ ppc' = "address"
    /\ ran' = Append(ran, "title")
    /\ UNCHANGED <<html, url, ld_i, result, textVars, fetchVars, batchVars, collectVars>>

StepAddress ==
    /\ ppc = "address"
    /\ property_info' = extract_address(BeautifulSoup(html), property_info)
    /\ ppc' = "details"
    /\ ran' = Append(ran, "address")
    /\ UNCHANGED <<html, url, ld_i, result, textVars, fetchVars, batchVars, collectVars>>

StepDetails ==
    /\ ppc = "details"
    /\ property_info' = extract_property_details(BeautifulSoup(html), property_info)
    /\ ppc' = "prices"
    /\ ran' = Append(ran, "details")
    /\ UNCHANGED <<html, url, ld_i, result, textVars, fetchVars, batchVars, collectVars>>

StepPrices ==
    /\ ppc = "prices"
    /\ property_info' = extract_prices(BeautifulSoup(html), property_info)
    /\ ppc' = "success"
    /\ ran' = Append(ran, "prices")
    /\ UNCHANGED <<html, url, ld_i, result, textVars, fetchVars, batchVars, collectVars>>

\* property_info.status = "success"; return property_info
StepSuccess ==
    /\ ppc = "success"
    /\ property_info' = [property_info EXCEPT !.status = "success"]
    /\ ppc' = "returned"
    /\ UNCHANGED <<html, url, ld_i, ran, result, textVars, fetchVars, batchVars, collectVars>>

\* save_results: data = [prop.to_dict() for prop in properties], for the
\* record process_single_url returned
SaveResults ==
    /\ ppc = "returned"
    /\ result = <<>>
    /\ result' = to_dict(property_info)
    /\ UNCHANGED <<property_info, html, url, ppc, ld_i, ran, textVars, fetchVars, batchVars, collectVars>>

ParseNext ==
    \/ ProcessSingleUrl
    \/ ParsePropertyCall
    \/ StepJsonLd
    \/ StepTitle
    \/ StepAddress
    \/ StepDetails
    \/ StepPrices
    \/ StepSuccess
    \/ SaveResults

ParseSpec == ParseInit /\ [][ParseNext]_vars

-----------------------------------------------------------------------------
(* http_client.py: fetch_html.  What one `await client.get(url)` ends in:  *)
(* a response, or one of the exceptions the loop catches                   *)

RETRIES == 3

Response(code, body) == [kind |-> "response", status_code |-> code, text |-> body]

Raised(exception) == [kind |-> exception, status_code |-> 0, text |-> NoneHtml]

\* two pages a server may send: one that parses, one whose JSON-LD raises
GoodPage ==
    [kind |-> "markup", ld |-> 2, title |-> 2, container |-> 2, generic |-> 1,
     breadcrumbs |-> 1, main_info |-> 2, price_table |-> 2]

BadPage == [GoodPage EXCEPT !.ld = 5]

ServerOutcomes ==
    {Response(200, GoodPage), Response(200, BadPage), Response(200, EmptyHtml),
     Response(202, GoodPage), Response(304, EmptyHtml), Response(404, GoodPage),
     Response(429, EmptyHtml), Response(500, GoodPage), Response(503, EmptyHtml),
     Raised("TimeoutException"), Raised("RequestError"), Raised("Exception")}

\* a loop body without the 429 branch: rate limiting taken as a client error
fetch_branch_no_rate_limit(r) ==
    IF r.kind = "TimeoutException" \/ r.kind = "RequestError" THEN "sleep"
    ELSE IF r.kind = "Exception" THEN "break"
    ELSE IF r.status_code = 200 /\ TruthyHtml(r.text) THEN "return"
    ELSE IF r.status_code >= 400 /\ r.status_code < 500 THEN "break"
    ELSE IF r.status_code >= 500 THEN "sleep"
    ELSE "next"

\* a loop body without the `except Exception` clause
fetch_branch_no_catch_all(r) ==
    IF r.kind = "TimeoutException" \/ r.kind = "RequestError" THEN "sleep"
    ELSE IF r.kind = "Exception" THEN "raise"
    ELSE IF r.status_code = 200 /\ TruthyHtml(r.text) THEN "return"
    ELSE IF r.status_code = 429 THEN "sleep"
    ELSE IF r.status_code >= 400 /\ r.status_code < 500 THEN "break"
    ELSE IF r.status_code >= 500 THEN "sleep"
    ELSE "next"

\* the branch of fetch_html's loop body an outcome takes:
\*   "return" the text is returned, "sleep" asyncio.sleep then the next
\*   iteration, "break" the loop is left, "next" the next iteration at once,
\*   "raise" the exception leaves fetch_html (no outcome does: the last
\*   except clause catches Exception)
fetch_branch(r) ==
    IF r.kind = "TimeoutException" \/ r.kind = "RequestError" THEN "sleep"
    ELSE IF r.kind = "Exception" THEN "break"
    ELSE IF r.status_code = 200 /\ TruthyHtml(r.text) THEN "return"
    ELSE IF r.status_code = 429 THEN "sleep"
    ELSE IF r.status_code >= 400 /\ r.status_code < 500 THEN "break"
    ELSE IF r.status_code >= 500 THEN "sleep"
    ELSE "next"

\* a loop that runs one iteration too many
has_next_attempt_off_by_one(a) == a < RETRIES + 1

\* `for attempt in range(1, RETRIES + 1)`: whether another iteration follows
has_next_attempt(a) == a < RETRIES

FetchInit ==
    /\ attempt = 1
    /\ fpc = "get"
    /\ responses = <<>>
    /\ fetched = NoneHtml
    /\ TextIdle /\ ParseIdle /\ BatchIdle /\ CollectIdle

\* the end of one loop iteration that did not return or break
FetchContinue(a) ==
    IF has_next_attempt(a)
    THEN attempt' = a + 1 /\ fpc' = "get" /\ UNCHANGED fetched
    ELSE fpc' = "returned" /\ fetched' = NoneHtml /\ UNCHANGED attempt

\* `response = await client.get(url, timeout=TIMEOUT)` completes
FetchGet ==
    /\ fpc = "get"
    /\ \E r \in ServerOutcomes :
          /\ responses' = Append(responses, r)
          /\ CASE fetch_branch(r) = "return" ->
                    fpc' = "returned" /\ fetched' = r.text /\ UNCHANGED attempt
               [] fetch_branch(r) = "break" ->
                    fpc' = "returned" /\ fetched' = NoneHtml /\ UNCHANGED attempt
               [] fetch_branch(r) = "sleep" ->
                    fpc' = "sleep" /\ UNCHANGED <<attempt, fetched>>
               [] fetch_branch(r) = "raise" ->
                    fpc' = "raised" /\ UNCHANGED <<attempt, fetched>>
               [] OTHER -> FetchContinue(attempt)
    /\ UNCHANGED <<textVars, parseVars, batchVars, collectVars>>

\* `await asyncio.sleep(...)` completes
FetchWake ==
    /\ fpc = "sleep"
    /\ FetchContinue(attempt)
    /\ UNCHANGED <<responses, textVars, parseVars, batchVars, collectVars>>

FetchNext == FetchGet \/ FetchWake

FetchSpec == FetchInit /\ [][FetchNext]_vars

\* client.get ends within TIMEOUT and asyncio.sleep ends: the loop advances
FairFetchSpec == FetchSpec /\ WF_vars(FetchNext)

-----------------------------------------------------------------------------
(* http_client.py: process_single_url and fetch_all_properties.  Every     *)
(* url gets one task process_with_semaphore(url); a task is "created",     *)
(* "waiting" for the semaphore, in "get" or "sleep" while it holds the     *)
(* semaphore inside fetch_html, then "done" or "raised".                   *)

CONCURRENCY == 8

\* the longest url list whose tasks meet every server outcome
NumUrls == 2

\* the parse of the pages the servers of BatchSpec send, computed once
ParsedPage == [h \in {GoodPage, BadPage}, u \in Urls |-> parse_property(h, u)]

\* data_parser.parse_property_html
parse_property_html(h, u) == ParsedPage[h, u]

\* PropertyFetcher.process_single_url, given what fetch_html returned
process_single_url(h, u) ==
    IF TruthyHtml(h) THEN parse_property_html(h, u)
    ELSE PropertyInfo(u, "fetch_failed")

\* a context manager that leaves the semaphore as it is on exit
semaphore_kept(v) == v

\* `async with semaphore` on exit: Semaphore.release()
semaphore_release(v) == v + 1

RECURSIVE UrlLists(_)
\* the lists of n urls
UrlLists(n) ==
    IF n = 0 THEN {<<>>}
    ELSE {Append(l, u) : l \in UrlLists(n - 1), u \in Urls}

AnyUrl == CHOOSE u \in Urls : TRUE

OtherUrl == CHOOSE u \in Urls : u # AnyUrl

\* either a short list of urls whose server may answer anything, or one url
\* more than the semaphore admits, all answered at the first request
BatchInit ==
    /\ \/ /\ urls \in UNION {UrlLists(n) : n \in 0..NumUrls}
          /\ site = [u \in Urls |-> ServerOutcomes]
       \/ /\ urls = [i \in 1..(CONCURRENCY + 1) |->
                        IF i = 1 THEN OtherUrl ELSE AnyUrl]
          /\ site = [u \in Urls |->
                        IF u = AnyUrl THEN {Response(200, GoodPage)}
                        ELSE {Response(404, EmptyHtml)}]
    /\ task = <<>>
    /\ sem_value = 0
    /\ sem_waiters = <<>>
    /\ results = <<>>
    /\ main = "called"
    /\ TextIdle /\ ParseIdle /\ FetchIdle /\ CollectIdle

\* fetch_all_properties up to the as_completed loop
MainStart ==
    /\ main = "called"
    /\ IF Len(urls) = 0
       THEN main' = "returned" /\ UNCHANGED <<task, sem_value>>
       ELSE /\ main' = "as_completed"
            /\ task' = [i \in 1..Len(urls) |-> [pc |-> "created", attempt |-> 0]]
            /\ sem_value' = CONCURRENCY
    /\ UNCHANGED <<urls, site, sem_waiters, results, textVars, parseVars, fetchVars, collectVars>>

\* a task runs up to its first await: Semaphore.acquire(), then client.get
TaskStart ==
    \E i \in DOMAIN task :
        /\ main = "as_completed"
        /\ task[i].pc = "created"
        /\ IF sem_value > 0
           THEN /\ sem_value' = sem_value - 1
                /\ task' = [task EXCEPT ![i] = [pc |-> "get", attempt |-> 1]]
                /\ UNCHANGED sem_waiters
           ELSE /\ sem_waiters' = Append(sem_waiters, i)
                /\ task' = [task EXCEPT ![i].pc = "waiting"]
                /\ UNCHANGED sem_value
        /\ UNCHANGED <<urls, site, results, main, textVars, parseVars, fetchVars, collectVars>>

\* the first waiter is woken after a release and enters fetch_html
TaskAcquire ==
    /\ main = "as_completed"
    /\ Len(sem_waiters) > 0
    /\ sem_value > 0
    /\ sem_value' = sem_value - 1
    /\ sem_waiters' = Tail(sem_waiters)
    /\ task' = [task EXCEPT ![Head(sem_waiters)] = [pc |-> "get", attempt |-> 1]]
    /\ UNCHANGED <<urls, site, results, main, textVars, parseVars, fetchVars, collectVars>>

\* fetch_html returned h to process_single_url: the record is built, the
\* semaphore left, and as_completed hands the record to the loop, which
\* appends it (records reach results in the order their tasks complete)
TaskFinish(i, h) ==
    /\ results' = Append(results, process_single_url(h, urls[i]))
    /\ sem_value' = semaphore_release(sem_value)
    /\ task' = [task EXCEPT ![i] = [pc |-> "done", attempt |-> 0]]
    /\ UNCHANGED main

\* the end of a loop iteration of fetch_html that did not return or break
TaskContinue(i) ==
    IF has_next_attempt(task[i].attempt)
    THEN /\ task' = [task EXCEPT ![i] = [pc |-> "get", attempt |-> @.attempt + 1]]
         /\ UNCHANGED <<results, sem_value, main>>
    ELSE TaskFinish(i, NoneHtml)

\* an exception leaves the task: the semaphore is left, `await coro` raises
\* it in fetch_all_properties, which ends without a result
TaskRaise(i) ==
    /\ task' = [task EXCEPT ![i] = [pc |-> "raised", attempt |-> 0]]
    /\ sem_value' = semaphore_release(sem_value)
    /\ main' = "raised"
    /\ UNCHANGED results

\* a task's `await client.get(url, timeout=TIMEOUT)` completes
TaskGet ==
    \E i \in DOMAIN task :
        /\ main = "as_completed"
        /\ task[i].pc = "get"
        /\ \E r \in site[urls[i]] :
              CASE fetch_branch(r) = "return" -> TaskFinish(i, r.text)
                [] fetch_branch(r) = "break"  -> TaskFinish(i, NoneHtml)
                [] fetch_branch(r) = "sleep"  ->
                      /\ task' = [task EXCEPT ![i].pc = "sleep"]
                      /\ UNCHANGED <<results, sem_value, main>>
                [] fetch_branch(r) = "raise"  -> TaskRaise(i)
                [] OTHER -> TaskContinue(i)
        /\ UNCHANGED <<urls, site, sem_waiters, textVars, parseVars, fetchVars, collectVars>>

\* a task's `await asyncio.sleep(...)` completes
TaskWake ==
    \E i \in DOMAIN task :
        /\ main = "as_completed"
        /\ task[i].pc = "sleep"
        /\ TaskContinue(i)
        /\ UNCHANGED <<urls, site, sem_waiters, textVars, parseVars, fetchVars, collectVars>>

\* the as_completed loop has consumed every task: return results
MainReturn ==
    /\ main = "as_completed"
    /\ Len(results) = Len(urls)
    /\ main' = "returned"
    /\ UNCHANGED <<urls, site, task, sem_value, sem_waiters, results,
                   textVars, parseVars, fetchVars, collectVars>>

BatchNext ==
    \/ MainStart
    \/ TaskStart
    \/ TaskAcquire
    \/ TaskGet
    \/ TaskWake
    \/ MainReturn

BatchSpec == BatchInit /\ [][BatchNext]_vars

\* the event loop runs every ready task, and every client.get and
\* asyncio.sleep ends: while a step is possible, one is taken
FairBatchSpec == BatchSpec /\ WF_vars(BatchNext)

-----------------------------------------------------------------------------
(* url_collector.py: collect_all_urls.  The results page is the            *)
(* environment: each call into the driver ends in one of the outcomes the  *)
(* code distinguishes.  all_urls is the size of the set of that name.      *)

\* `while len(all_urls)<=100`
UrlTarget == 100

\* max_no_progress
max_no_progress == 3

\* the most new hrefs one call of _collect_current_urls adds
MaxNewUrls == 25

\* no_progress_count is kept up to this value: the code only compares it
\* with max_no_progress, which every value from there on passes
NoProgressCap == 4

\* no_progress_count += 1
increment(c) == IF c < NoProgressCap THEN c + 1 ELSE c

\* `finally: if self.driver: self.driver.quit()`
driver_quit(d, b) == IF d = "set" THEN "quit" ELSE b

\* a return inside the try block, the finally clause included
CollectReturn(n) ==
    /\ cpc' = "returned"
    /\ final_urls' = Some(n)
    /\ browser' = driver_quit(driver, browser)
    /\ UNCHANGED driver

CollectInit ==
    /\ cpc = "setup"
    /\ driver = "None"
    /\ browser = "none"
    /\ all_urls = 0
    /\ no_progress_count = 0
    /\ final_urls = None
    /\ TextIdle /\ ParseIdle /\ FetchIdle /\ BatchIdle

\* self.driver = self._setup_driver(), before the try block: Chrome starts
\* or not, and a call on the started driver may raise before the return
CollectSetup ==
    /\ cpc = "setup"
    /\ \E outcome \in {"ok", "no_browser", "raised_after_start"} :
          CASE outcome = "ok" ->
                  cpc' = "open" /\ driver' = "set" /\ browser' = "running"
            [] outcome = "no_browser" ->
                  cpc' = "raised" /\ UNCHANGED <<driver, browser>>
            [] OTHER ->
                  cpc' = "raised" /\ browser' = "running" /\ UNCHANGED driver
    /\ UNCHANGED <<all_urls, no_progress_count, final_urls,
                   textVars, parseVars, fetchVars, batchVars>>

\* self.driver.get(LISTING_URL); if not self._wait_for_initial_load():
\* return []; all_urls = set(); no_progress_count = 0
CollectOpen ==
    /\ cpc = "open"
    /\ \E outcome \in {"loaded", "TimeoutException", "WebDriverException"} :
          IF outcome = "loaded"
          THEN /\ cpc' = "while"
               /\ all_urls' = 0
               /\ no_progress_count' = 0
               /\ UNCHANGED <<driver, browser, final_urls>>
          ELSE CollectReturn(0) /\ UNCHANGED <<all_urls, no_progress_count>>
    /\ UNCHANGED <<textVars, parseVars, fetchVars, batchVars>>

\* the loop test, then current_urls = self._collect_current_urls() with
\* new_urls = current_urls - all_urls of any size, and the bookkeeping
CollectRound ==
    /\ cpc = "while"
    /\ IF all_urls <= UrlTarget
       THEN /\ \E new_urls \in 0..MaxNewUrls :
                  IF new_urls > 0
                  THEN all_urls' = all_urls + new_urls /\ no_progress_count' = 0
                  ELSE no_progress_count' = increment(no_progress_count)
                       /\ UNCHANGED all_urls
            /\ cpc' = "find_button"
            /\ UNCHANGED <<driver, browser, final_urls>>
       ELSE CollectReturn(all_urls) /\ UNCHANGED <<all_urls, no_progress_count>>
    /\ UNCHANGED <<textVars, parseVars, fetchVars, batchVars>>

\* button = self._find_load_more_button(); if not button: break; then
\* previous_count = len(self.driver.find_elements(...))
CollectFindButton ==
    /\ cpc = "find_button"
    /\ \E outcome \in {"found", "TimeoutException", "WebDriverException"} :
          CASE outcome = "found" ->
                  cpc' = "click" /\ UNCHANGED <<driver, browser, final_urls>>
            [] outcome = "TimeoutException" -> CollectReturn(all_urls)
            [] OTHER -> CollectReturn(0)
    /\ UNCHANGED <<all_urls, no_progress_count,
                   textVars, parseVars, fetchVars, batchVars>>

\* if not self._click_load_more(button): break
CollectClick ==
    /\ cpc = "click"
    /\ \E clicked \in BOOLEAN :
          IF clicked
          THEN cpc' = "wait" /\ UNCHANGED <<driver, browser, final_urls>>
          ELSE CollectReturn(all_urls)
    /\ UNCHANGED <<all_urls, no_progress_count,
                   textVars, parseVars, fetchVars, batchVars>>

\* if not self._wait_for_new_content(previous_count): no_progress_count += 1
\* and the test against max_no_progress
CollectWait ==
    /\ cpc = "wait"
    /\ \E outcome \in {"more_cards", "TimeoutException", "WebDriverException"} :
          CASE outcome = "more_cards" ->
                  /\ cpc' = "while"
                  /\ UNCHANGED <<driver, browser, final_urls, no_progress_count>>
            [] outcome = "TimeoutException" ->
                  /\ no_progress_count' = increment(no_progress_count)
                  /\ IF increment(no_progress_count) >= max_no_progress
                     THEN CollectReturn(all_urls)
                     ELSE cpc' = "while" /\ UNCHANGED <<driver, browser, final_urls>>
            [] OTHER -> CollectReturn(0) /\ UNCHANGED no_progress_count
    /\ UNCHANGED <<all_urls, textVars, parseVars, fetchVars, batchVars>>

CollectNext ==
    \/ CollectSetup
    \/ CollectOpen
    \/ CollectRound
    \/ CollectFindButton
    \/ CollectClick
    \/ CollectWait

CollectSpec == CollectInit /\ [][CollectNext]_vars

\* every call into the driver ends: the waits are WebDriverWait(driver,
\* WAIT_TIME), the page load has PAGE_LOAD_TIMEOUT
FairCollectSpec == CollectSpec /\ WF_vars(CollectNext)

-----------------------------------------------------------------------------
(* Claims *)

\* C1: first writer wins: once area, quartos, banheiros, vagas or andar
\* holds a non-empty value, no later update_from_text call changes it.
C1_FirstWriterWins ==
    [][/\ \A f \in {"area", "andar"} :
             (info[f] # None /\ info[f] # Some("")) => info'[f] = info[f]
       /\ \A f \in {"quartos", "banheiros", "vagas"} :
             info[f] # None => info'[f] = info[f]]_vars

IsAreaFragment(t) == Contains(t, "m²") /\ ~Contains(lower(t), "quarto")

\* C2: a fragment with 'm²' and without 'quarto' sets area only when area is
\* empty: it writes its own number into an empty area and leaves a set area
\* as it is, so of two such fragments in sequence the first one's number stays.
C2_AreaSetOnlyWhenEmpty ==
    [][(calls' = calls + 1 /\ IsAreaFragment(text')) =>
          IF info.area # None /\ info.area # Some("")
          THEN info'.area = info.area
          ELSE info'.area = clean_area(text')]_vars

\* two area fragments with different numbers were fed; the first one's stays
C2_Witness ==
    /\ calls = 2
    /\ text = "80 m²"
    /\ info.area = Some("50")

Terminal == {"success", "parse_error", "fetch_failed", "no_content"}

\* C3: a record's status is pending until it moves, once, to success or
\* parse_error (from pending, after a parse) or is fetch_failed or no_content
\* (no HTML was obtained); a terminal status never changes, and no returned
\* record is pending.
C3_StatusLifecycle ==
    /\ [](property_info.status \in {"(no record)", "pending"} \cup Terminal)
    /\ [](ppc = "returned" => property_info.status \in Terminal)
    /\ [][property_info.status \in Terminal =>
             property_info'.status = property_info.status]_vars
    /\ [][(property_info.status = "pending" /\ property_info'.status # "pending") =>
             property_info'.status \in {"success", "parse_error"}]_vars
    /\ [][property_info'.status \in {"success", "parse_error"} =>
             (html.kind = "markup" /\ property_info.status \in {"pending", property_info'.status})]_vars
    /\ [][(property_info'.status \in {"fetch_failed", "no_content"}
             /\ property_info.status # property_info'.status) =>
             (html.kind \in {"None", "empty"} /\ property_info.status = "(no record)")]_vars

\* a record that was pending while its page was parsed has been returned
\* with parse_error
C3_Witness ==
    /\ ppc = "returned"
    /\ property_info.status = "parse_error"
    /\ Len(ran) > 0

\* C4: parse_property on None or "" returns at once the record with the
\* input url, status no_content and every other field at its default; no
\* extraction step runs.
C4_NoContent ==
    [][(ppc = "parse_property" /\ html.kind \in {"None", "empty"}) =>
          /\ ppc' = "returned"
          /\ ran' = <<>>
          /\ property_info' =
                [url |-> url, title |-> None, address_street |-> None,
                 area |-> None, quartos |-> None, suite |-> 0,
                 banheiros |-> None, vagas |-> None, andar |-> None,
                 pet |-> "não", mobiliado |-> "sim", metro_proximo |-> "não",
                 prices |-> <<>>, status |-> "no_content"]]_vars

C4_Witness ==
    /\ ppc = "returned"
    /\ html = EmptyHtml
    /\ property_info.status = "no_content"
    /\ property_info.url = url

StepOrder == <<"json_ld", "title", "address", "details", "prices">>

IsPrefix(a, b) == Len(a) <= Len(b) /\ a = SubSeq(b, 1, Len(a))

DataFields ==
    {"url", "title", "address_street", "area", "quartos", "suite", "banheiros",
     "vagas", "andar", "pet", "mobiliado", "metro_proximo", "prices"}

\* C5: the steps run in the order structured-data, title, address, details,
\* prices; when a step raises no later step runs, status becomes parse_error
\* and every field keeps the value it had at the failure; status is success
\* only if all five steps completed.
C5_StepsAndNoRollback ==
    /\ [](IsPrefix(ran, StepOrder))
    /\ [](property_info.status = "success" => (ran = StepOrder /\ ppc = "returned"))
    /\ [](property_info.status = "parse_error" =>
             (ppc = "returned" /\ Len(ran) > 0 /\ Len(ran) < Len(StepOrder)))
    /\ [][(property_info.status = "pending" /\ property_info'.status = "parse_error") =>
             /\ ran' = ran \/ ran = <<>>
             /\ \A f \in DataFields : property_info'[f] = property_info[f]]_vars
    /\ [][ppc = "returned" => UNCHANGED <<property_info, ran>>]_vars

\* the second JSON-LD block raised after the first one had written the
\* address and a price: both are kept, and the title step never ran
C5_Witness ==
    /\ ppc = "returned"
    /\ property_info.status = "parse_error"
    /\ property_info.address_street = Some("Rua A, 10")
    /\ property_info.prices # <<>>
    /\ TitleChoices[html.title] # None
    /\ property_info.title = None
    /\ ran = <<"json_ld">>

\* C6: whatever a JSON-LD block holds, it is skipped at worst: the other
\* steps still run and the record of a page ends with status success.
C6_MalformedBlockNeverAborts ==
    (ppc = "returned" /\ html.kind = "markup") =>
        (property_info.status = "success" /\ ran = StepOrder)

\* C7: an address_street that structured-data extraction has set is left
\* unchanged by the DOM heuristic address step.
C7_StructuredAddressKept ==
    [][(ppc = "address" /\ property_info.address_street # None
          /\ property_info.address_street # Some("")) =>
          property_info'.address_street = property_info.address_street]_vars

\* the address step has run on a page where every heuristic strategy finds
\* an address, and the structured-data address is still there
C7_Witness ==
    /\ ppc = "details"
    /\ property_info.address_street = Some("Rua A, 10, São Paulo")
    /\ address_from_paragraphs(BeautifulSoup(html)) = Some("Rua B, 20, Tatuapé")
    /\ address_from_container(BeautifulSoup(html)) # None
    /\ address_from_generic(BeautifulSoup(html)) # None
    /\ address_from_breadcrumbs(BeautifulSoup(html)) # None

IsSuccessResponse(r) ==
    r.kind = "response" /\ r.status_code = 200 /\ r.text.kind = "markup"

\* the GET requests issued so far: one per outcome, and the one in flight
RequestsIssued == Len(responses) + (IF fpc = "get" THEN 1 ELSE 0)

\* C10: fetch_html issues at most RETRIES GET requests and then terminates;
\* it returns the body of the first response with status 200 and non-empty
\* text, or None if no attempt produced one.
C10_BoundedRetry ==
    /\ [](RequestsIssued <= RETRIES)
    /\ [](fpc = "returned" =>
             IF \E i \in 1..Len(responses) : IsSuccessResponse(responses[i])
             THEN LET first == CHOOSE i \in 1..Len(responses) :
                                  /\ IsSuccessResponse(responses[i])
                                  /\ \A j \in 1..(i - 1) : ~IsSuccessResponse(responses[j])
                  IN  fetched = responses[first].text
             ELSE fetched = NoneHtml)
    /\ <>(fpc = "returned")

\* the third request was answered with a page after two failures
C10_Witness ==
    /\ fpc = "returned"
    /\ Len(responses) = RETRIES
    /\ fetched = GoodPage
    /\ responses[1].kind = "TimeoutException"
    /\ responses[2].status_code = 503

\* the tasks inside fetch_html, holding the semaphore
Holders == {i \in DOMAIN task : task[i].pc \in {"get", "sleep"}}

UrlCount(seq, u) == Cardinality({i \in DOMAIN seq : seq[i] = u})

RecordCount(seq, u) == Cardinality({i \in DOMAIN seq : seq[i].url = u})

\* C8: fetch_all_properties always returns, no exception of a unit reaches
\* it, and what it returns holds exactly one record for each url of the
\* input (as often as the url occurs in it), each in a terminal status; the
\* records gathered so far are those of the completed tasks.
C8_AlwaysFullOutput ==
    /\ [](main # "raised")
    /\ [](main = "as_completed" =>
            Len(results) = Cardinality({i \in DOMAIN task : task[i].pc = "done"}))
    /\ [](main = "returned" =>
            /\ Len(results) = Len(urls)
            /\ \A u \in Urls : RecordCount(results, u) = UrlCount(urls, u)
            /\ \A i \in DOMAIN results :
                  results[i].status \in {"success", "parse_error", "fetch_failed"})
    /\ <>(main = "returned")

\* a returned batch in which one unit failed to fetch, one failed to parse
\* and one succeeded
C8_Witness ==
    /\ main = "returned"
    /\ Len(results) = Len(urls)
    /\ \E i, j \in DOMAIN results :
          /\ results[i].status = "fetch_failed"
          /\ results[j].status \in {"success", "parse_error"}

\* C9: at most CONCURRENCY tasks are inside fetch_html at a time, the
\* semaphore counts exactly the free places (every task that left
\* fetch_html, with a page or without, gave its place back), a task that
\* waits for the semaphore leaves the wait only into fetch_html, and
\* eventually no task waits any more.
C9_BoundedConcurrency ==
    /\ [](Cardinality(Holders) <= CONCURRENCY)
    /\ [](main = "as_completed" => sem_value + Cardinality(Holders) = CONCURRENCY)
    /\ [](main = "returned" /\ Len(urls) > 0 => sem_value = CONCURRENCY)
    /\ [][\A i \in DOMAIN task :
            (task[i].pc = "waiting" /\ task'[i].pc # "waiting") => task'[i].pc = "get"]_vars
    /\ <>[](\A i \in DOMAIN task : task[i].pc # "waiting")

\* every place is taken and a task waits
C9_Witness ==
    /\ Cardinality(Holders) = CONCURRENCY
    /\ Len(sem_waiters) > 0
    /\ sem_value = 0

\* C11: process_single_url answers None or "" from fetch_html with the
\* record of the url at its defaults and status fetch_failed, at once and
\* without any parser step; it hands markup to parse_property unchanged, and
\* what is returned for markup is the record parse_property gives for that
\* markup and url; fetch_failed is the status of no record that had markup.
C11_FetchFailedIffNoMarkup ==
    /\ [][ppc = "process_single_url" =>
            IF html.kind \in {"None", "empty"}
            THEN /\ ppc' = "returned"
                 /\ ran' = <<>>
                 /\ property_info' =
                       [url |-> url, title |-> None, address_street |-> None,
                        area |-> None, quartos |-> None, suite |-> 0,
                        banheiros |-> None, vagas |-> None, andar |-> None,
                        pet |-> "não", mobiliado |-> "sim", metro_proximo |-> "não",
                        prices |-> <<>>, status |-> "fetch_failed"]
            ELSE /\ ppc' = "parse_property"
                 /\ UNCHANGED <<property_info, html, url, ran>>]_vars
    /\ [](property_info.status = "fetch_failed" =>
            (html.kind \in {"None", "empty"} /\ ran = <<>> /\ ppc = "returned"))
    /\ [](ppc = "returned" /\ html.kind = "markup" =>
            (property_info = parse_property(html, url)
             /\ property_info.status # "fetch_failed"))

\* fetch_html came back with "" and the record is fetch_failed
C11_Witness ==
    /\ ppc = "returned"
    /\ html = EmptyHtml
    /\ property_info.status = "fetch_failed"
    /\ ran = <<>>

\* the keyword conditions of the eight rules, in their order, on a fragment
RuleKeywords ==
    <<[rule |-> "area",        words |-> {"m²", "mâ²"}],
      [rule |-> "rooms",       words |-> {"quarto"}],
      [rule |-> "bathrooms",   words |-> {"banheiro"}],
      [rule |-> "parking",     words |-> {"vaga"}],
      [rule |-> "floor",       words |-> {"andar"}],
      [rule |-> "pets",        words |-> {"aceita pet"}],
      [rule |-> "unfurnished", words |-> {"sem mobília", "sem mobiliá"}],
      [rule |-> "metro",       words |-> {"metrô"}]>>

\* whether fragment t satisfies the keyword condition of rule k; the area
\* rule's condition excludes the fragments that name rooms
Satisfies(t, k) ==
    /\ \E w \in RuleKeywords[k].words : Contains(lower(t), w)
    /\ RuleKeywords[k].rule = "area" => ~Contains(lower(t), "quarto")

\* the first rule whose keyword condition t satisfies, "none" if there is none
FirstRule(t) ==
    IF \E k \in DOMAIN RuleKeywords : Satisfies(t, k)
    THEN RuleKeywords[CHOOSE k \in DOMAIN RuleKeywords :
                         Satisfies(t, k) /\ \A j \in 1..(k - 1) : ~Satisfies(t, j)].rule
    ELSE "none"

\* the fields a rule may write
RuleFields(r) ==
    CASE r = "area"        -> {"area"}
      [] r = "rooms"       -> {"quartos", "suite"}
      [] r = "bathrooms"   -> {"banheiros"}
      [] r = "parking"     -> {"vagas"}
      [] r = "floor"       -> {"andar"}
      [] r = "pets"        -> {"pet"}
      [] r = "unfurnished" -> {"mobiliado"}
      [] r = "metro"       -> {"metro_proximo"}
      [] OTHER             -> {}

\* what the formulas below ask about a fragment, worked out once for each
FragmentFacts ==
    [t \in Fragments |->
        [first_rule  |-> FirstRule(t),
         area_marker |-> Contains(t, "m²") \/ Contains(lower(t), "mâ²"),
         quarto      |-> Contains(lower(t), "quarto"),
         banheiro    |-> Contains(lower(t), "banheiro"),
         vaga        |-> Contains(lower(t), "vaga"),
         sem_vaga    |-> Contains(lower(t), "sem vaga"),
         suite       |-> Contains(lower(t), "suíte") \/ Contains(lower(t), "suite"),
         room_number    |-> re_search_num(lower(t), {"quarto"}),
         suite_number   |-> re_search_num(lower(t), {"suite", "suíte"}),
         parking_number |-> re_search_num(lower(t), {"vaga"})]]

\* the n of '<n> quarto' in t, None if t holds none
RoomNumber(t) == FragmentFacts[t].room_number

\* C12: a call applies the first rule whose keyword condition the fragment
\* satisfies and no other, whatever the record holds: it writes no field of
\* another rule, and a fragment with 'm²' and '<n> quarto', n in 1..10,
\* sets quartos = n.
C12_FirstMatchOnly ==
    [][calls' = calls + 1 =>
          /\ \A f \in DataFields \ RuleFields(FragmentFacts[text'].first_rule) :
                info'[f] = info[f]
          /\ (/\ Contains(text', "m²")
              /\ RoomNumber(text') # None
              /\ int(RoomNumber(text')[1]) \in 1..10)
                => info'.quartos = Some(int(RoomNumber(text')[1]))]_vars

\* C13: a second update_from_text call with the fragment of the call before
\* it leaves the record as that call left it.
C13_Idempotent ==
    [][(calls >= 1 /\ calls' = calls + 1 /\ text' = text) => info' = info]_vars

\* C14: after any sequence of update_from_text calls on a fresh record,
\* quartos is unset or in 1..10, banheiros is unset or in 1..10, vagas is
\* unset or in 0..10 and suite is in 0..5; a fragment '<n> quarto...' with n
\* outside 1..10 leaves quartos as it was.
C14_SanityRanges ==
    /\ [](calls > 0 =>
            /\ info.quartos \in {None} \cup {Some(n) : n \in 1..10}
            /\ info.banheiros \in {None} \cup {Some(n) : n \in 1..10}
            /\ info.vagas \in {None} \cup {Some(n) : n \in 0..10}
            /\ info.suite \in 0..5)
    /\ [][(/\ calls' = calls + 1
           /\ RoomNumber(text') # None
           /\ int(RoomNumber(text')[1]) \notin 1..10)
             => info'.quartos = info.quartos]_vars
    /\ [](calls = 1 /\ text \in {"0 quartos", "11 quartos"} => info.quartos = None)

\* '11 quartos' came after '2 quartos' and quartos is still 2
C14_Witness ==
    /\ calls = 2
    /\ text = "11 quartos"
    /\ info.quartos = Some(2)

\* whether the call on record self with fragment t gets to the rooms rule
ReachesRooms(self, t) ==
    /\ FragmentFacts[t].quarto
    /\ ~(FragmentFacts[t].area_marker /\ self.area \in {None, Some("")})

\* the s of '<s> suite' / '<s> suíte' in t, None if t holds none
SuiteNumber(t) == FragmentFacts[t].suite_number

\* C15: a fragment the rooms rule handles, reading '<n> quarto...' with n in
\* 1..10 and naming 'suíte' or 'suite', sets quartos = n, and sets suite to
\* the number s before the suite word when s is in 1..5, to 1 when no number
\* stands before it, and leaves suite as it was when s is outside 1..5;
\* '2 quartos (1 suíte)' gives quartos = 2 and suite = 1.
C15_RoomsWithSuites ==
    /\ [][(/\ calls' = calls + 1
           /\ ReachesRooms(info, text')
           /\ RoomNumber(text') # None
           /\ int(RoomNumber(text')[1]) \in 1..10
           /\ FragmentFacts[text'].suite)
             => /\ info'.quartos = Some(int(RoomNumber(text')[1]))
                /\ info'.suite =
                      IF SuiteNumber(text') = None THEN 1
                      ELSE IF int(SuiteNumber(text')[1]) \in 1..5
                           THEN int(SuiteNumber(text')[1])
                           ELSE info.suite
                /\ \A f \in DataFields \ {"quartos", "suite"} : info'[f] = info[f]]_vars
    /\ [](calls > 0 /\ text = "2 quartos (1 suíte)" =>
             (info.quartos = Some(2) /\ info.suite = 1))
    /\ [](calls = 1 /\ text = "2 quartos com Suíte" =>
             (info.quartos = Some(2) /\ info.suite = 1))
    /\ [](calls = 1 /\ text = "4 quartos 6 suítes" =>
             (info.quartos = Some(4) /\ info.suite = 0))

\* '2 quartos (1 suíte)' was the second fragment fed to a record without area
C15_Witness ==
    /\ calls = 2
    /\ text = "2 quartos (1 suíte)"
    /\ info.quartos = Some(2)
    /\ info.suite = 1
    /\ info.area = None

\* whether the call on record self with fragment t gets to the parking rule
ReachesParking(self, t) ==
    /\ FragmentFacts[t].vaga
    /\ ~FragmentFacts[t].quarto
    /\ ~FragmentFacts[t].banheiro
    /\ ~(FragmentFacts[t].area_marker /\ self.area \in {None, Some("")})

\* the n of '<n> vaga' in t, None if t holds none
ParkingNumber(t) == FragmentFacts[t].parking_number

\* C16: a fragment that reaches the parking rule sets vagas to 0 when it
\* states 'sem vaga', whatever number it also holds; otherwise it sets vagas
\* to the number n before 'vaga' when n is in 0..10 and leaves vagas as it
\* was when n is out of range or absent.
C16_ParkingRule ==
    [][(calls' = calls + 1 /\ ReachesParking(info, text')) =>
          info'.vagas =
             IF FragmentFacts[text'].sem_vaga THEN Some(0)
             ELSE IF ParkingNumber(text') # None /\ int(ParkingNumber(text')[1]) \in 0..10
                  THEN Some(int(ParkingNumber(text')[1]))
                  ELSE info.vagas]_vars

\* the keywords of the rules before the pet rule
EarlierThanPets == {"m²", "mâ²", "quarto", "banheiro", "vaga", "andar"}

\* fragment t holds word w in any of the spellings the inputs use
HoldsWord(t, w) ==
    \E i \in 1..(Len(t) - Len(w) + 1) :
       \A k \in 1..Len(w) :
          LET c == Char(t, i + k - 1)
              d == Char(w, k)
              p == CHOOSE n \in 0..Len(LowerChars) :
                      IF n = 0 THEN \A m \in 1..Len(LowerChars) : Char(LowerChars, m) # d
                      ELSE Char(LowerChars, n) = d
          IN  c = d \/ (p > 0 /\ c = Char(UpperChars, p))

\* which of the three cases of C17 a fragment falls under
FlagCase ==
    [t \in Fragments |->
        LET earlier == \E w \in EarlierThanPets : HoldsWord(t, w)
        IN  IF HoldsWord(t, "aceita pet") /\ ~earlier THEN "pets"
            ELSE IF HoldsWord(t, "sem mobília") /\ ~earlier THEN "unfurnished"
            ELSE IF /\ ~earlier
                    /\ \A w \in {"aceita pet", "sem mobília", "sem mobiliá", "metrô"} :
                          ~HoldsWord(t, w)
                 THEN "no rule"
            ELSE "other"]

\* C17: a fragment with 'aceita pet' and no keyword of an earlier rule sets
\* pet to 'sim' and nothing else; one with 'sem mobília' and no keyword of
\* an earlier rule sets mobiliado to 'não' and nothing else; a fragment no
\* rule matches leaves the record as it was.
C17_FlagRules ==
    [][calls' = calls + 1 =>
          /\ FlagCase[text'] = "pets" => info' = [info EXCEPT !.pet = "sim"]
          /\ FlagCase[text'] = "unfurnished" => info' = [info EXCEPT !.mobiliado = "não"]
          /\ FlagCase[text'] = "no rule" => info' = info]_vars

\* 'Aceita pet' was fed to a record that had its rooms, then 'Sem mobília':
\* both flags are set and the other fields are as before
C17_Witness ==
    /\ calls = 3
    /\ text = "Sem mobília"
    /\ info.pet = "sim"
    /\ info.mobiliado = "não"
    /\ info.quartos = Some(2)
    /\ info.metro_proximo = "não"

\* prices[label], None when prices has no such key
PriceOf(prices, label) ==
    IF \E i \in 1..Len(prices) : prices[i][1] = label
    THEN Some(prices[CHOOSE i \in 1..Len(prices) : prices[i][1] = label][2])
    ELSE None

\* a row with a label element, a non-empty label and a value candidate
HasLabelAndValue(row) ==
    Len(row.labels) > 0 /\ strip(row.labels[1]) # "" /\ Len(row.values) > 0

\* such a row whose last value candidate is not empty either
HasLabelAndNonEmptyValue(row) ==
    HasLabelAndValue(row) /\ strip(row.values[Len(row.values)]) # ""

\* prices after the walk over rows, given which rows write: the last value
\* candidate of the last writing row with that label, else what was there
PricesAfterWalk(rows, before, after, Writes(_)) ==
    LET labels == {before[i][1] : i \in 1..Len(before)}
                     \cup {after[i][1] : i \in 1..Len(after)}
                     \cup {strip(rows[i].labels[1]) :
                              i \in {k \in 1..Len(rows) : Len(rows[k].labels) > 0}}
    IN  \A label \in labels :
           LET writers == {i \in 1..Len(rows) :
                              Writes(rows[i]) /\ strip(rows[i].labels[1]) = label}
               last == CHOOSE i \in writers : \A j \in writers : j <= i
           IN  PriceOf(after, label) =
                  IF writers = {} THEN PriceOf(before, label)
                  ELSE Some(strip(rows[last].values[Len(rows[last].values)]))

\* C18 as stated: every row with a label element, a non-empty label and a
\* value candidate sets prices[label] to the trimmed text of its last value
\* candidate, and every other row changes nothing.
C18_PriceTable ==
    [][ppc = "prices" =>
          PricesAfterWalk(BeautifulSoup(html).price_table, property_info.prices,
                          property_info'.prices, HasLabelAndValue)]_vars

\* C18 amended: a row with no label element, an empty label, no value
\* candidate or a last value candidate that is empty after trimming changes
\* nothing; every other row sets prices[label] to the trimmed text of its
\* last value candidate, so after the walk prices[label] is that of the last
\* such row; 'Aluguel' with 'R$ 0' then 'R$ 2.500' gives 'R$ 2.500'.
C18_PriceTableAmended ==
    /\ [][ppc = "prices" =>
            /\ PricesAfterWalk(BeautifulSoup(html).price_table, property_info.prices,
                               property_info'.prices, HasLabelAndNonEmptyValue)
            /\ \A f \in DataFields \ {"prices"} : property_info'[f] = property_info[f]]_vars
    /\ [](ppc = "success" /\ html.price_table = 2 =>
            /\ PriceOf(property_info.prices, "Aluguel") = Some("R$ 2.500")
            /\ PriceOf(property_info.prices, "IPTU") = None
            /\ PriceOf(property_info.prices, "Condomínio") = None)
    /\ [](ppc = "success" /\ html.price_table = 3 =>
            PriceOf(property_info.prices, "Aluguel") = Some("R$ 3.100"))

\* the walk is over a table whose second 'Aluguel' row ends in an empty
\* candidate: the first row's value is still there
C18_Witness ==
    /\ ppc = "success"
    /\ html.price_table = 4
    /\ PriceOf(property_info.prices, "Aluguel") = Some("R$ 2.000")

\* what the four strategies find on a page, in their order
StrategyResults(soup) ==
    <<address_from_paragraphs(soup), address_from_container(soup),
      address_from_generic(soup), address_from_breadcrumbs(soup)>>

\* the address step has run and structured data had given no address
AddressStepDone ==
    /\ html.kind = "markup"
    /\ html.ld = 1
    /\ ppc \in {"details", "prices", "success", "returned"}

\* C19: with address_street empty before the step, the step leaves the
\* result of the first of the strategies paragraphs, container text, generic
\* selectors, breadcrumbs that finds something, and nothing if none does,
\* in which case the record still ends with status success; the step
\* writes no other field.  On the pages of ParseSpec: the paragraphs
\* de-duplicated and joined by ', '; the container text with its whitespace
\* collapsed; the first generic element longer than 10 characters; the
\* first of the last two breadcrumbs with a geographic keyword.
C19_AddressWaterfall ==
    /\ [][(ppc = "address" /\ property_info.address_street \in {None, Some("")}) =>
            LET found == StrategyResults(BeautifulSoup(html))
                hits == {k \in 1..4 : found[k] # None /\ found[k] # Some("")}
            IN  /\ property_info'.address_street =
                      IF hits = {} THEN property_info.address_street
                      ELSE found[CHOOSE k \in hits : \A j \in hits : k <= j]
                /\ \A f \in DataFields \ {"address_street"} :
                      property_info'[f] = property_info[f]]_vars
    /\ [](AddressStepDone /\ html.container = 2 =>
            property_info.address_street = Some("Rua B, 20, Tatuapé"))
    /\ [](AddressStepDone /\ html.container = 3 =>
            property_info.address_street = Some("Rua C, 30"))
    /\ [](AddressStepDone /\ html.container \in {1, 4} /\ html.generic = 2 =>
            property_info.address_street = Some("Tatuapé, São Paulo - SP"))
    /\ [](AddressStepDone /\ html.container \in {1, 4} /\ html.generic = 3 =>
            property_info.address_street = Some("Zona Leste, São Paulo"))
    /\ [](AddressStepDone /\ html.container \in {1, 4} /\ html.generic = 1 =>
            property_info.address_street =
               CASE html.breadcrumbs = 2 -> Some("São Paulo")
                 [] html.breadcrumbs = 4 -> Some("Avenida E")
                 [] OTHER -> None)
    /\ [](AddressStepDone /\ ppc = "returned" /\ property_info.address_street = None =>
            property_info.status = "success")

\* a page without structured data, address container or generic match whose
\* breadcrumbs are 'Home', 'São Paulo': the last one became the address
C19_Witness ==
    /\ AddressStepDone
    /\ ppc = "returned"
    /\ html.container = 4
    /\ html.generic = 1
    /\ BeautifulSoup(html).breadcrumbs = <<"Home", " São Paulo ">>
    /\ property_info.address_street = Some("São Paulo")
    /\ property_info.status = "success"

\* the record after the main-info blocks of the page, before the title pass
AfterBlocks == details_from(BeautifulSoup(html).main_info, 1, property_info)

\* C20: _extract_property_details feeds the main-info blocks in document
\* order and then the title, and the title pass changes no field among
\* area, quartos, suite, banheiros, vagas and andar that the blocks have set.
C20_TitlePassRespectsGuards ==
    [][ppc = "details" =>
          /\ property_info' =
                IF ~TruthyStr(AfterBlocks.title) THEN AfterBlocks
                ELSE update_from_text(AfterBlocks, AfterBlocks.title[1])
          /\ \A f \in {"area", "andar"} :
                TruthyStr(AfterBlocks[f]) => property_info'[f] = AfterBlocks[f]
          /\ \A f \in {"quartos", "banheiros", "vagas"} :
                AfterBlocks[f] # None => property_info'[f] = AfterBlocks[f]
          /\ AfterBlocks.suite # property_info.suite =>
                property_info'.suite = AfterBlocks.suite]_vars

\* row[key] of a flattened row
Column(d, key) == d[CHOOSE i \in 1..Len(d) : d[i][1] = key][2]

\* the thirteen fixed columns of to_dict, in order
FixedColumns ==
    <<"url", "status", "title", "address_street", "area", "quartos", "suite",
      "banheiros", "vagas", "andar", "pet", "mobiliado", "metro_proximo">>

\* C21: the row to_dict makes of a record carries the thirteen fixed columns
\* with the record's own field values, row["url"] being the record's url and
\* row["status"] its status, plus one column per price label with that
\* price's value, whatever the labels are.
C21_RowIdentity ==
    result # <<>> =>
        /\ Len(result) = Len(FixedColumns) + Len(property_info.prices)
        /\ \A i \in 1..Len(FixedColumns) :
               /\ result[i][1] = FixedColumns[i]
               /\ result[i][2] = property_info[FixedColumns[i]]
        /\ \A i \in 1..Len(property_info.prices) :
               Column(result, property_info.prices[i][1]) = property_info.prices[i][2]

\* the response classes of the retry policy
IsClientError(r) ==
    r.kind = "response" /\ r.status_code >= 400 /\ r.status_code < 500 /\ r.status_code # 429

IsUnexpected(r) == r.kind = "Exception"

IsRetriable(r) ==
    \/ r.kind \in {"TimeoutException", "RequestError"}
    \/ r.kind = "response" /\ (r.status_code = 429 \/ r.status_code >= 500)

IsUnmatched(r) ==
    r.kind = "response" /\ r.status_code < 400 /\ ~IsSuccessResponse(r)

\* fetch_html is over and returned None
ReturnedNone == fpc = "returned" /\ fetched = NoneHtml

\* C22: the retry policy by response class.  A 4xx other than 429 and an
\* unexpected exception end the loop at once with None, no request after
\* them; a 429, a 5xx, a timeout and a request error are followed by
\* another request while attempts remain and by None when none remains; a
\* 200 with an empty body and a response matching no branch are never
\* returned as success: the loop goes on to the next attempt, or ends with
\* None after the last.
C22_RetryPolicy ==
    /\ [](\A i \in 1..Len(responses) :
             LET r == responses[i]
                 last == i = Len(responses)
                 remain == i < RETRIES
             IN  /\ (IsClientError(r) \/ IsUnexpected(r)) => (last /\ ReturnedNone)
                 /\ (IsRetriable(r) /\ last /\ remain) => fpc \in {"sleep", "get"}
                 /\ (IsRetriable(r) /\ last /\ ~remain) => (fpc = "sleep" \/ ReturnedNone)
                 /\ (IsUnmatched(r) /\ last /\ remain) => fpc = "get"
                 /\ (IsUnmatched(r) /\ last /\ ~remain) => ReturnedNone
                 /\ (fpc = "returned" /\ fetched # NoneHtml) =>
                        (IsSuccessResponse(responses[Len(responses)])
                         /\ fetched = responses[Len(responses)].text))
    /\ \A n \in 1..(RETRIES - 1) :
          (Len(responses) = n /\ (IsRetriable(responses[n]) \/ IsUnmatched(responses[n])))
              ~> (Len(responses) = n + 1)

\* a 429 was followed by a second request, whose 404 ended the loop with
\* None while an attempt remained
C22_Witness ==
    /\ ReturnedNone
    /\ Len(responses) = 2
    /\ responses[1].status_code = 429
    /\ responses[2].status_code = 404
    /\ attempt < RETRIES

\* C23: every run of collect_all_urls ends: the loop is left after finitely
\* many rounds whatever the results page does, in particular when
\* successive rounds find no new URLs, and every exit of the function after
\* the driver was created leaves the browser quit.
C23_CollectionTerminates ==
    /\ [](cpc = "returned" => browser = "quit")
    /\ (cpc = "while") ~> (cpc = "returned")

=============================================================================
